---- MODULE Spec2Model ----
(***************************************************************************)
(* A model of data_analysis.py: the load -> validate -> clean -> derive -> *)
(* aggregate -> write -> plot pipeline of main(), one action per step.     *)
(*                                                                         *)
(* A frame is a sequence of rows; a row is a function from column names to *)
(* cells plus the key "index" (the pandas index label, i.e. the position   *)
(* the row was loaded at).  A numeric cell is a pair <<n, d>>: the         *)
(* rational n/d in lowest terms when d > 0, NaN when <<0, 0>>, and         *)
(* +inf / -inf when <<1, 0>> / <<-1, 0>> (what float division by zero      *)
(* gives).  A raw cell of a metric column, before pd.to_numeric, is        *)
(* <<"num", k>>, <<"text", 0>> (unparseable text) or <<"empty", 0>>.       *)
(* A categorical cell is a string; NA stands for a missing cell.           *)
(***************************************************************************)
EXTENDS Integers, Sequences, FiniteSets, TLC

VARIABLES
    input,                  \* the CSV at CSV_PATH: exists, header columns, data rows
    tie_order,              \* how the installed sort orders equal keys
    pc,                     \* the statement of main() that runs next
    run,                    \* 1 for the first execution, 2 for a repeated one
    dirs,                   \* directories created by ensure_dirs
    df,
    means,
    avg_macros,
    top_protein,
    highest_protein_diet,
    highest_protein_value,
    cuisine_counts,
    most_common_cuisines,
    files,                  \* the output files: name -> [written, body]
    prev_files,             \* the files as the previous execution left them
    stdout,                 \* the console summary
    error                   \* the exception that ended the run, if any

vars == <<input, tie_order, pc, run, dirs, df, means, avg_macros, top_protein,
          highest_protein_diet, highest_protein_value, cuisine_counts,
          most_common_cuisines, files, prev_files, stdout, error>>

(***************************************************************************)
(* Configuration                                                           *)
(***************************************************************************)
CHART_DIR == "outputs/charts"
RESULT_DIR == "outputs/results"

NUM_COLS == <<"Protein(g)", "Carbs(g)", "Fat(g)">>
CAT_COLS == <<"Diet_type", "Recipe_name", "Cuisine_type">>

HeadN == 5

Range(s) == {s[i] : i \in 1..Len(s)}

\* The order Python's sorted() gives strings (code-point order), restricted to
\* the strings the model uses, smallest first.
StrOrder == <<"", "A", "B", "C", "Carbs(g)", "Cuisine_type", "D", "Diet_type",
              "E", "Extra", "F", "Fat(g)", "G", "H", "Protein(g)", "Recipe_name",
              "american", "asian", "keto", "vegan">>

StrRank(s) == CHOOSE i \in 1..Len(StrOrder) : StrOrder[i] = s

StrLess(a, b) == StrRank(a) < StrRank(b)

\* sorted(list(S)) for a set of strings
SortedStrings(S) ==
    [i \in 1..Cardinality(S) |->
        CHOOSE s \in S : Cardinality({t \in S : StrLess(t, s)}) = i - 1]

NA == ""

(***************************************************************************)
(* Floating-point cells, as exact rationals with NaN and the infinities    *)
(***************************************************************************)
NaN == <<0, 0>>
PosInf == <<1, 0>>
NegInf == <<-1, 0>>

Abs(x) == IF x < 0 THEN -x ELSE x

RECURSIVE GCD(_, _)
GCD(a, b) == IF b = 0 THEN a ELSE GCD(b, a % b)

\* n/d in lowest terms with a positive denominator (d # 0)
Num(n, d) ==
    LET g == GCD(Abs(n), Abs(d))
        s == IF d < 0 THEN -1 ELSE 1
    IN  <<(s * n) \div g, (s * d) \div g>>

isna(v) == v = NaN

IsFinite(v) == v[2] > 0

IsZero(v) == IsFinite(v) /\ v[1] = 0

Add(a, b) ==
    IF isna(a) \/ isna(b) THEN NaN
    ELSE Num(a[1] * b[2] + b[1] * a[2], a[2] * b[2])

\* float division: x / 0 is an infinity, 0 / 0 and anything with NaN is NaN
TrueDiv(a, b) ==
    IF isna(a) \/ isna(b) THEN NaN
    ELSE IF IsZero(b)
         THEN (IF a[1] = 0 THEN NaN ELSE IF a[1] > 0 THEN PosInf ELSE NegInf)
         ELSE Num(a[1] * b[2], a[2] * b[1])

Less(a, b) == a[1] * b[2] < b[1] * a[2]

RECURSIVE SumSeq(_)
SumSeq(s) == IF s = <<>> THEN <<0, 1>> ELSE Add(Head(s), SumSeq(Tail(s)))

\* Series.mean(): NaNs are skipped; the mean of no values is NaN
Mean(vals) ==
    LET nonnull == SelectSeq(vals, LAMBDA v : ~isna(v))
    IN  IF nonnull = <<>> THEN NaN
        ELSE TrueDiv(SumSeq(nonnull), <<Len(nonnull), 1>>)

\* f"{v:.2f}": v rounded to hundredths (an exact tie, which only a dyadic
\* value can be, goes to the even neighbour), given as the number of hundredths
Format2f(v) ==
    LET q == (100 * v[1]) \div v[2]
        r == (100 * v[1]) % v[2]
    IN  IF 2 * r > v[2] THEN q + 1
        ELSE IF 2 * r < v[2] THEN q
        ELSE IF q % 2 = 0 THEN q ELSE q + 1

\* pd.to_numeric(errors="coerce") on one cell
to_numeric(cell) ==
    IF cell[1] = "num" THEN <<cell[2], 1>> ELSE NaN

Column(frame, col) == [i \in 1..Len(frame) |-> frame[i][col]]

\* Divide while avoiding division-by-zero: NaN where the denominator is 0 or NaN
MutSafeDivideNoReplace(numerator, denominator) ==
    TrueDiv(numerator, denominator)

safe_divide(numerator, denominator) ==
    LET denom == IF IsZero(denominator) THEN NaN ELSE denominator
    IN  TrueDiv(numerator, denom)

(***************************************************************************)
(* Inputs                                                                  *)
(***************************************************************************)
MaxRowsClean == 3
MaxRowsGroup == 3
MaxRowsTop == 6

required_cols == Range(NUM_COLS) \cup Range(CAT_COLS)

RecipeNames == <<"A", "B", "C", "D", "E", "F", "G", "H">>

MkRow(diet, name, cuisine, protein, carbs, fat) ==
    ("Diet_type" :> diet) @@ ("Recipe_name" :> name) @@ ("Cuisine_type" :> cuisine)
    @@ ("Protein(g)" :> protein) @@ ("Carbs(g)" :> carbs) @@ ("Fat(g)" :> fat)
    @@ ("Extra" :> "E")

\* the data rows of a file: up to maxlen rows, each of one of the given kinds
\* <<diet, cuisine, protein, carbs, fat>>, named A, B, C, ... in file order
RowsOf(kinds, maxlen) ==
    {[i \in 1..Len(ks) |->
        MkRow(ks[i][1], RecipeNames[i], ks[i][2], ks[i][3], ks[i][4], ks[i][5])] :
        ks \in UNION {[1..n -> kinds] : n \in 0..maxlen}}

Files(columns, rowsets) == [exists : {TRUE}, columns : columns, rows : rowsets]

\* a file that may be absent and whose header may lack any of the columns
InputsSchema ==
    [exists : BOOLEAN,
     columns : SUBSET (required_cols \cup {"Extra"}),
     rows : RowsOf({<<"keto", "asian", <<"num", 1>>, <<"num", 2>>, <<"num", 3>>>>}, 1)]

\* well-formed headers; metric cells that are numbers, zero, text or empty
InputsClean ==
    Files({required_cols},
          RowsOf({<<"keto", "asian", p, cf[1], cf[2]>> :
                    p \in {<<"num", 1>>, <<"num", 2>>, <<"text", 0>>},
                    cf \in {<<<<"num", 0>>, <<"num", 2>>>>,
                            <<<<"num", 3>>, <<"num", 0>>>>,
                            <<<<"empty", 0>>, <<"text", 0>>>>}},
                 MaxRowsClean))

\* well-formed headers; diet and cuisine cells that vary or are missing
InputsGroup ==
    Files({required_cols},
          RowsOf({<<k[1], k[2], <<"num", k[3]>>, <<"num", 1>>, <<"num", 1>>>> :
                    k \in {<<"keto", "american", 1>>, <<"keto", "asian", 1>>,
                           <<"keto", "asian", 2>>, <<"vegan", "asian", 1>>,
                           <<"vegan", "asian", 2>>, <<NA, "asian", 1>>,
                           <<"keto", NA, 1>>}},
                 MaxRowsGroup))

\* well-formed headers; more rows of one diet than the top-N view keeps
InputsTop ==
    Files({required_cols},
          RowsOf({<<"keto", "asian", <<"num", 1>>, <<"num", 1>>, <<"num", 1>>>>,
                  <<"keto", "asian", <<"num", 2>>, <<"num", 1>>, <<"num", 1>>>>,
                  <<"vegan", "asian", <<"num", 2>>, <<"num", 1>>, <<"num", 1>>>>},
                 MaxRowsTop))

(***************************************************************************)
(* Output files                                                            *)
(***************************************************************************)
AVG_CSV == "outputs/results/avg_macros_by_diet.csv"
TOP_CSV == "outputs/results/top5_protein_recipes_by_diet.csv"
HIGHEST_TXT == "outputs/results/highest_protein_diet.txt"
CUISINE_CSV == "outputs/results/most_common_cuisine_by_diet.csv"
BAR_PNG == "outputs/charts/avg_macros_bar.png"
HEATMAP_PNG == "outputs/charts/avg_macros_heatmap.png"
SCATTER_PNG == "outputs/charts/top_protein_scatter.png"

ResultFiles == {AVG_CSV, TOP_CSV, HIGHEST_TXT, CUISINE_CSV}
ChartFiles == {BAR_PNG, HEATMAP_PNG, SCATTER_PNG}

NoFile == [written |-> FALSE, body |-> <<>>]
NoError == [type |-> "none", detail |-> <<>>]

\* DataFrame.to_csv: one tuple of cells per row, in column order
to_csv(frame, cols) ==
    [written |-> TRUE,
     body |-> [i \in 1..Len(frame) |-> [k \in 1..Len(cols) |-> frame[i][cols[k]]]]]

Locals0 ==
    /\ df = <<>>
    /\ means = <<>>
    /\ avg_macros = <<>>
    /\ top_protein = <<>>
    /\ highest_protein_diet = NA
    /\ highest_protein_value = NaN
    /\ cuisine_counts = <<>>
    /\ most_common_cuisines = <<>>
    /\ stdout = <<>>
    /\ error = NoError

InitWith(inputs) ==
    /\ input \in inputs
    /\ tie_order \in {"first", "last"}
    /\ pc = "ensure_dirs"
    /\ run = 1
    /\ dirs = {}
    /\ files = [f \in ResultFiles \cup ChartFiles |-> NoFile]
    /\ prev_files = [f \in ResultFiles \cup ChartFiles |-> NoFile]
    /\ Locals0

Init == InitWith(InputsSchema \cup InputsClean \cup InputsGroup \cup InputsTop)

(***************************************************************************)
(* main(), statement by statement                                          *)
(***************************************************************************)
Raise(type, detail) ==
    /\ pc' = "failed"
    /\ error' = [type |-> type, detail |-> detail]

ensure_dirs ==
    /\ pc = "ensure_dirs"
    /\ dirs' = dirs \cup {CHART_DIR, RESULT_DIR}
    /\ pc' = "exists"
    /\ UNCHANGED <<input, tie_order, run, df, means, avg_macros, top_protein,
                   highest_protein_diet, highest_protein_value, cuisine_counts,
                   most_common_cuisines, files, prev_files, stdout, error>>

\* if not os.path.exists(CSV_PATH): raise FileNotFoundError
CheckExists ==
    /\ pc = "exists"
    /\ IF input.exists
       THEN pc' = "read_csv" /\ UNCHANGED error
       ELSE Raise("FileNotFoundError", <<>>)
    /\ UNCHANGED <<input, tie_order, run, dirs, df, means, avg_macros, top_protein,
                   highest_protein_diet, highest_protein_value, cuisine_counts,
                   most_common_cuisines, files, prev_files, stdout>>

\* df = pd.read_csv(CSV_PATH): the header's columns, a RangeIndex from 0
read_csv ==
    /\ pc = "read_csv"
    /\ df' = [i \in 1..Len(input.rows) |->
                [c \in input.columns \cup {"index"} |->
                    IF c = "index" THEN i - 1 ELSE input.rows[i][c]]]
    /\ pc' = "validate"
    /\ UNCHANGED <<input, tie_order, run, dirs, means, avg_macros, top_protein,
                   highest_protein_diet, highest_protein_value, cuisine_counts,
                   most_common_cuisines, files, prev_files, stdout, error>>

\* missing = required_cols - set(df.columns)
MutMissingNumColsOnly(columns) == Range(NUM_COLS) \ columns

MissingCols(columns) == required_cols \ columns

\* raise ValueError(f"... missing required columns: {sorted(list(missing))}")
Validate ==
    /\ pc = "validate"
    /\ LET missing == MissingCols(input.columns)
       IN  IF missing # {}
           THEN Raise("ValueError", SortedStrings(missing))
           ELSE pc' = "coerce" /\ UNCHANGED error
    /\ UNCHANGED <<input, tie_order, run, dirs, df, means, avg_macros, top_protein,
                   highest_protein_diet, highest_protein_value, cuisine_counts,
                   most_common_cuisines, files, prev_files, stdout>>

\* for col in NUM_COLS: df[col] = pd.to_numeric(df[col], errors="coerce")
CoerceFrame(frame) ==
    [i \in 1..Len(frame) |->
        [c \in DOMAIN frame[i] |->
            IF c \in Range(NUM_COLS) THEN to_numeric(frame[i][c]) ELSE frame[i][c]]]

Coerce ==
    /\ pc = "coerce"
    /\ df' = CoerceFrame(df)
    /\ pc' = "impute"
    /\ UNCHANGED <<input, tie_order, run, dirs, means, avg_macros, top_protein,
                   highest_protein_diet, highest_protein_value, cuisine_counts,
                   most_common_cuisines, files, prev_files, stdout, error>>

\* means = df[NUM_COLS].mean(numeric_only=True)
MutColumnMeansNaNAsZero(frame) ==
    [c \in Range(NUM_COLS) |->
        Mean([i \in 1..Len(frame) |->
                IF isna(frame[i][c]) THEN <<0, 1>> ELSE frame[i][c]])]

ColumnMeans(frame) == [c \in Range(NUM_COLS) |-> Mean(Column(frame, c))]

\* df[NUM_COLS] = df[NUM_COLS].fillna(means)
fillna(frame, m) ==
    [i \in 1..Len(frame) |->
        [c \in DOMAIN frame[i] |->
            IF c \in Range(NUM_COLS) /\ isna(frame[i][c]) THEN m[c] ELSE frame[i][c]]]

Impute ==
    /\ pc = "impute"
    /\ means' = ColumnMeans(df)
    /\ df' = fillna(df, means')
    /\ pc' = "ratios"
    /\ UNCHANGED <<input, tie_order, run, dirs, avg_macros, top_protein,
                   highest_protein_diet, highest_protein_value, cuisine_counts,
                   most_common_cuisines, files, prev_files, stdout, error>>

\* df["Protein_to_Carbs_ratio"] = ...; df["Carbs_to_Fat_ratio"] = ...
DeriveRatios ==
    /\ pc = "ratios"
    /\ df' = [i \in 1..Len(df) |->
                df[i]
                @@ ("Protein_to_Carbs_ratio" :>
                        safe_divide(df[i]["Protein(g)"], df[i]["Carbs(g)"]))
                @@ ("Carbs_to_Fat_ratio" :>
                        safe_divide(df[i]["Carbs(g)"], df[i]["Fat(g)"]))]
    /\ pc' = "avg_macros"
    /\ UNCHANGED <<input, tie_order, run, dirs, means, avg_macros, top_protein,
                   highest_protein_diet, highest_protein_value, cuisine_counts,
                   most_common_cuisines, files, prev_files, stdout, error>>

(***************************************************************************)
(* Frame operations of the aggregation steps                               *)
(***************************************************************************)
\* the k-th row, in frame order, among the rows at the positions P
Take(frame, P) ==
    [k \in 1..Cardinality(P) |->
        frame[CHOOSE i \in P : Cardinality({j \in P : j < i}) = k - 1]]

\* sort_values' default kind is "quicksort", which is not stable: rows with
\* equal keys come out in an order the installed sort fixes (tie_order), the
\* same on every execution
MutTieBeforeByRun(i, j) == IF run = 1 THEN i < j ELSE j < i

TieBefore(i, j) == IF tie_order = "first" THEN i < j ELSE j < i

\* the row at position i precedes the row at position j in the result of
\* frame.sort_values(col, ascending=False); NaN keys go last, in frame order
MutBeforeAscending(frame, col, i, j) ==
    LET a == frame[i][col]
        b == frame[j][col]
    IN  IF isna(a) THEN isna(b) /\ i < j
        ELSE \/ isna(b)
             \/ Less(a, b)
             \/ a = b /\ TieBefore(i, j)

BeforeDesc(frame, col, i, j) ==
    LET a == frame[i][col]
        b == frame[j][col]
    IN  IF isna(a) THEN isna(b) /\ i < j
        ELSE \/ isna(b)
             \/ Less(b, a)
             \/ a = b /\ TieBefore(i, j)

SortValuesDesc(frame, col) ==
    [k \in 1..Len(frame) |->
        frame[CHOOSE i \in 1..Len(frame) :
                Cardinality({j \in 1..Len(frame) : BeforeDesc(frame, col, j, i)}) = k - 1]]

\* the group keys of frame.groupby(col): the distinct values, sorted, a
\* missing key left out (sort=True, dropna=True)
GroupKeys(frame, col) == SortedStrings(Range(Column(frame, col)) \ {NA})

GroupRows(frame, col, key) == SelectSeq(frame, LAMBDA r : r[col] = key)

\* df.groupby("Diet_type")[NUM_COLS].mean(): one row per key, in key order
GroupMean(frame) ==
    LET keys == GroupKeys(frame, "Diet_type")
    IN  [k \in 1..Len(keys) |->
            [c \in {"Diet_type"} \cup Range(NUM_COLS) |->
                IF c = "Diet_type" THEN keys[k]
                ELSE Mean(Column(GroupRows(frame, "Diet_type", keys[k]), c))]]

\* frame.groupby(col).head(n): the rows that are among the first n of their
\* group, in frame order; a row with a missing key is in no group
MutGroupHeadOneMore(frame, col, n) ==
    Take(frame, {i \in 1..Len(frame) :
                    /\ frame[i][col] # NA
                    /\ Cardinality({j \in 1..(i - 1) : frame[j][col] = frame[i][col]}) < n + 1})

GroupHead(frame, col, n) ==
    Take(frame, {i \in 1..Len(frame) :
                    /\ frame[i][col] # NA
                    /\ Cardinality({j \in 1..(i - 1) : frame[j][col] = frame[i][col]}) < n})

\* .loc[:, cols]: the named columns, the index kept
Loc(frame, cols) ==
    [i \in 1..Len(frame) |-> [c \in Range(cols) \cup {"index"} |-> frame[i][c]]]

TOP_COLS == <<"Diet_type", "Recipe_name", "Cuisine_type", "Protein(g)", "Carbs(g)", "Fat(g)">>

\* Series.idxmax(): the position of the first maximum, NaNs skipped
MutIdxMaxIsIdxMin(s) ==
    CHOOSE i \in 1..Len(s) :
        /\ ~isna(s[i])
        /\ \A j \in 1..Len(s) : isna(s[j]) \/ ~Less(s[j], s[i])
        /\ \A j \in 1..(i - 1) : isna(s[j]) \/ Less(s[i], s[j])

IdxMax(s) ==
    CHOOSE i \in 1..Len(s) :
        /\ ~isna(s[i])
        /\ \A j \in 1..Len(s) : isna(s[j]) \/ ~Less(s[i], s[j])
        /\ \A j \in 1..(i - 1) : isna(s[j]) \/ Less(s[j], s[i])

\* df.groupby(["Diet_type", "Cuisine_type"]).size().reset_index(name="Count"):
\* one row per pair that occurs, in (diet, cuisine) order; a row with either
\* key missing is in no group
PairCounts(frame) ==
    LET pairs == {<<frame[i]["Diet_type"], frame[i]["Cuisine_type"]>> : i \in 1..Len(frame)}
        kept == {p \in pairs : p[1] # NA /\ p[2] # NA}
        PairLess(p, q) == StrLess(p[1], q[1]) \/ (p[1] = q[1] /\ StrLess(p[2], q[2]))
    IN  [k \in 1..Cardinality(kept) |->
            LET p == CHOOSE q \in kept : Cardinality({o \in kept : PairLess(o, q)}) = k - 1
            IN  [c \in {"Diet_type", "Cuisine_type", "Count", "index"} |->
                    CASE c = "Diet_type" -> p[1]
                      [] c = "Cuisine_type" -> p[2]
                      [] c = "Count" ->
                           Cardinality({i \in 1..Len(frame) :
                                          /\ frame[i]["Diet_type"] = p[1]
                                          /\ frame[i]["Cuisine_type"] = p[2]})
                      [] c = "index" -> k - 1]]

\* .sort_values(["Diet_type", "Count"], ascending=[True, False]): a sort on
\* several keys is a lexsort, which is stable
BeforeDietCount(frame, i, j) ==
    \/ StrLess(frame[i]["Diet_type"], frame[j]["Diet_type"])
    \/ /\ frame[i]["Diet_type"] = frame[j]["Diet_type"]
       /\ \/ frame[i]["Count"] > frame[j]["Count"]
          \/ frame[i]["Count"] = frame[j]["Count"] /\ i < j

SortDietCount(frame) ==
    [k \in 1..Len(frame) |->
        frame[CHOOSE i \in 1..Len(frame) :
                Cardinality({j \in 1..Len(frame) : BeforeDietCount(frame, j, i)}) = k - 1]]

CUISINE_COLS == <<"Diet_type", "Cuisine_type", "Count">>

(***************************************************************************)
(* main(), the aggregation and output steps                                *)
(***************************************************************************)
\* 6) avg_macros = df.groupby(...).mean().sort_values(...); avg_macros.to_csv
AvgMacros ==
    /\ pc = "avg_macros"
    /\ avg_macros' = SortValuesDesc(GroupMean(df), "Protein(g)")
    /\ files' = [files EXCEPT ![AVG_CSV] =
                    to_csv(avg_macros', <<"Diet_type", "Protein(g)", "Carbs(g)", "Fat(g)">>)]
    /\ pc' = "top_protein"
    /\ UNCHANGED <<input, tie_order, run, dirs, df, means, top_protein,
                   highest_protein_diet, highest_protein_value, cuisine_counts,
                   most_common_cuisines, prev_files, stdout, error>>

\* 7) top_protein = df.sort_values(...).groupby(...).head(5).loc[...]; to_csv
TopProtein ==
    /\ pc = "top_protein"
    /\ top_protein' =
          Loc(GroupHead(SortValuesDesc(df, "Protein(g)"), "Diet_type", HeadN), TOP_COLS)
    /\ files' = [files EXCEPT ![TOP_CSV] = to_csv(top_protein', TOP_COLS)]
    /\ pc' = "highest"
    /\ UNCHANGED <<input, tie_order, run, dirs, df, means, avg_macros,
                   highest_protein_diet, highest_protein_value, cuisine_counts,
                   most_common_cuisines, prev_files, stdout, error>>

\* 8) highest_protein_diet = avg_macros["Protein(g)"].idxmax(), its value by
\* .loc, and the text file.  idxmax raises ValueError on an empty Series; on
\* an all-NaN one it raises too, or yields NaN, which .loc then rejects.
HighestProtein ==
    /\ pc = "highest"
    /\ LET s == Column(avg_macros, "Protein(g)")
       IN  IF Len(s) = 0
           THEN /\ Raise("ValueError", <<"attempt to get argmax of an empty sequence">>)
                /\ UNCHANGED <<highest_protein_diet, highest_protein_value, files>>
           ELSE IF \A i \in 1..Len(s) : isna(s[i])
           THEN /\ Raise("KeyError", <<"nan">>)
                /\ UNCHANGED <<highest_protein_diet, highest_protein_value, files>>
           ELSE /\ highest_protein_diet' = avg_macros[IdxMax(s)]["Diet_type"]
                /\ highest_protein_value' =
                      (CHOOSE r \in Range(avg_macros) :
                          r["Diet_type"] = highest_protein_diet')["Protein(g)"]
                /\ files' = [files EXCEPT ![HIGHEST_TXT] =
                                [written |-> TRUE,
                                 body |-> <<highest_protein_diet',
                                            Format2f(highest_protein_value')>>]]
                /\ pc' = "cuisines"
                /\ UNCHANGED error
    /\ UNCHANGED <<input, tie_order, run, dirs, df, means, avg_macros, top_protein,
                   cuisine_counts, most_common_cuisines, prev_files, stdout>>

\* 9) cuisine_counts, most_common_cuisines = ...head(1); to_csv
MostCommonCuisines ==
    /\ pc = "cuisines"
    /\ cuisine_counts' = SortDietCount(PairCounts(df))
    /\ most_common_cuisines' = GroupHead(cuisine_counts', "Diet_type", 1)
    /\ files' = [files EXCEPT ![CUISINE_CSV] = to_csv(most_common_cuisines', CUISINE_COLS)]
    /\ pc' = "charts"
    /\ UNCHANGED <<input, tie_order, run, dirs, df, means, avg_macros, top_protein,
                   highest_protein_diet, highest_protein_value, prev_files, stdout, error>>

\* A), B), C): the three plt.savefig calls; a chart's bytes are opaque
Charts ==
    /\ pc = "charts"
    /\ files' = [f \in DOMAIN files |->
                    IF f \in ChartFiles THEN [written |-> TRUE, body |-> <<"png">>]
                    ELSE files[f]]
    /\ pc' = "summary"
    /\ UNCHANGED <<input, tie_order, run, dirs, df, means, avg_macros, top_protein,
                   highest_protein_diet, highest_protein_value, cuisine_counts,
                   most_common_cuisines, prev_files, stdout, error>>

\* the console summary: the row count, the highest-protein line, and
\* most_common_cuisines.head(10).to_string(index=False)
Summary ==
    /\ pc = "summary"
    /\ stdout' = [rows |-> Len(df),
                  highest |-> <<highest_protein_diet, Format2f(highest_protein_value)>>,
                  cuisines |-> to_csv(SubSeq(most_common_cuisines, 1,
                                             IF Len(most_common_cuisines) < 10
                                             THEN Len(most_common_cuisines) ELSE 10),
                                      CUISINE_COLS).body]
    /\ pc' = "done"
    /\ UNCHANGED <<input, tie_order, run, dirs, df, means, avg_macros, top_protein,
                   highest_protein_diet, highest_protein_value, cuisine_counts,
                   most_common_cuisines, files, prev_files, error>>

\* the script is run again on the same file, with the same output directory
Rerun ==
    /\ pc \in {"done", "failed"}
    /\ run = 1
    /\ run' = 2
    /\ prev_files' = files
    /\ pc' = "ensure_dirs"
    /\ df' = <<>>
    /\ means' = <<>>
    /\ avg_macros' = <<>>
    /\ top_protein' = <<>>
    /\ highest_protein_diet' = NA
    /\ highest_protein_value' = NaN
    /\ cuisine_counts' = <<>>
    /\ most_common_cuisines' = <<>>
    /\ stdout' = <<>>
    /\ error' = NoError
    /\ UNCHANGED <<input, tie_order, dirs, files>>

Next ==
    \/ ensure_dirs
    \/ CheckExists
    \/ read_csv
    \/ Validate
    \/ Coerce
    \/ Impute
    \/ DeriveRatios
    \/ AvgMacros
    \/ TopProtein
    \/ HighestProtein
    \/ MostCommonCuisines
    \/ Charts
    \/ Summary

Spec == Init /\ [][Next]_vars

NextRerun == Next \/ Rerun

InitRerun == InitWith(InputsSchema \cup InputsGroup \cup InputsTop)

SpecRerun == InitRerun /\ [][NextRerun]_vars

(***************************************************************************)
(* Properties                                                              *)
(***************************************************************************)
ClaimedCols == {"Diet_type", "Recipe_name", "Cuisine_type", "Protein(g)", "Carbs(g)", "Fat(g)"}

ValidInput == input.exists /\ ClaimedCols \subseteq input.columns

NoOutputWritten == \A f \in DOMAIN files : ~files[f].written

AfterImpute == {"ratios", "avg_macros", "top_protein", "highest", "cuisines",
                "charts", "summary", "done"}

AfterRatios == AfterImpute \ {"ratios"}

AfterAvg == AfterRatios \ {"avg_macros"}

AfterTop == AfterAvg \ {"top_protein"}

AfterHighest == AfterTop \ {"highest"}

AfterCuisines == AfterHighest \ {"cuisines"}

\* C1: a run on a header-only file fails before the extreme-lookup step: it
\* never stands at the idxmax statement (nor beyond it).  The code has no
\* check for an empty frame, so the run does reach idxmax, with an empty
\* averages view and two result files already written.
C1_EmptyInputFailsBeforeLookup ==
    (ValidInput /\ input.rows = <<>>) => pc \notin AfterTop

\* C2: a missing source file or a missing required column ends the run before
\* any result or chart file is written; the existence check comes first, the
\* column check second and before any cleaning, and the ValueError names
\* exactly the required columns the header lacks, sorted.
C2_FailsBeforeAnyOutput ==
    /\ ~input.exists =>
          /\ pc \in {"ensure_dirs", "exists", "failed"}
          /\ NoOutputWritten
          /\ df = <<>>
          /\ pc = "failed" => error.type = "FileNotFoundError"
    /\ (input.exists /\ ~(ClaimedCols \subseteq input.columns)) =>
          /\ pc \in {"ensure_dirs", "exists", "read_csv", "validate", "failed"}
          /\ NoOutputWritten
          /\ pc = "failed" =>
                /\ error.type = "ValueError"
                /\ Range(error.detail) = ClaimedCols \ input.columns
                /\ Len(error.detail) = Cardinality(ClaimedCols \ input.columns)
                /\ \A k \in 1..(Len(error.detail) - 1) :
                      StrLess(error.detail[k], error.detail[k + 1])
                /\ \A i \in 1..Len(df) : \A c \in DOMAIN df[i] \ {"index"} :
                      df[i][c] = input.rows[i][c]

C2_Witness ==
    /\ pc = "failed"
    /\ error.type = "ValueError"
    /\ error.detail = <<"Diet_type", "Fat(g)">>
    /\ input.rows # <<>>
    /\ "Extra" \in input.columns

\* whether a raw cell parses as a number
Parseable(cell) == cell[1] = "num"

\* a run on a well-formed file fails nowhere but at the lookup of step 8,
\* with the frame cleaned, the ratios derived and steps 6 and 7 written
FailsOnlyAtLookup ==
    (ValidInput /\ pc = "failed") =>
        /\ error.type \in {"ValueError", "KeyError"}
        /\ files[AVG_CSV].written /\ files[TOP_CSV].written
        /\ Len(df) = Len(input.rows)
        /\ \A i \in 1..Len(df) :
              {"Protein_to_Carbs_ratio", "Carbs_to_Fat_ratio"} \subseteq DOMAIN df[i]

RatioAsClaimed(ratio, numerator, denominator) ==
    /\ ratio \notin {PosInf, NegInf}
    /\ IF isna(numerator) \/ isna(denominator) \/ denominator[1] = 0
       THEN isna(ratio)
       ELSE ratio = Num(numerator[1] * denominator[2], numerator[2] * denominator[1])

DietTypes == Range(Column(input.rows, "Diet_type")) \ {NA}

RowsOfDiet(frame, d) == SelectSeq(frame, LAMBDA r : r["Diet_type"] = d)

\* one row per diet type of the input, holding the means of its cleaned records
AvgRowsAsClaimed ==
    /\ Len(avg_macros) = Cardinality(DietTypes)
    /\ {avg_macros[k]["Diet_type"] : k \in 1..Len(avg_macros)} = DietTypes
    /\ \A k \in 1..Len(avg_macros) : \A c \in Range(NUM_COLS) :
          avg_macros[k][c] = Mean(Column(RowsOfDiet(df, avg_macros[k]["Diet_type"]), c))

\* mean protein never increases down the view; null means come last
AvgDescending ==
    \A k \in 1..(Len(avg_macros) - 1) :
        LET a == avg_macros[k]["Protein(g)"]
            b == avg_macros[k + 1]["Protein(g)"]
        IN  isna(b) \/ (~isna(a) /\ ~Less(a, b))

Min(a, b) == IF a < b THEN a ELSE b

\* positions of df, protein descending, equal protein in load order
LoadOrderBefore(i, j) ==
    LET a == df[i]["Protein(g)"]
        b == df[j]["Protein(g)"]
    IN  IF isna(a) THEN isna(b) /\ i < j
        ELSE isna(b) \/ Less(b, a) \/ (a = b /\ i < j)

\* the index labels of the first HeadN records of diet d in that order
FirstInLoadOrder(d) ==
    LET P == {i \in 1..Len(df) : df[i]["Diet_type"] = d}
    IN  [k \in 1..Min(HeadN, Cardinality(P)) |->
            (CHOOSE i \in P : Cardinality({j \in P : LoadOrderBefore(j, i)}) = k - 1) - 1]

TopRowsAreRecords ==
    \A k \in 1..Len(top_protein) :
        LET i == top_protein[k]["index"] + 1
        IN  /\ i \in 1..Len(df)
            /\ top_protein[k]["Diet_type"] \in DietTypes
            /\ \A c \in Range(TOP_COLS) : top_protein[k][c] = df[i][c]
            /\ \A l \in 1..Len(top_protein) : top_protein[l]["index"] = i - 1 => l = k

PairCount(d, c) ==
    Cardinality({i \in 1..Len(df) : df[i]["Diet_type"] = d /\ df[i]["Cuisine_type"] = c})

CuisinesOf(d) == Range(Column(RowsOfDiet(df, d), "Cuisine_type")) \ {NA}

\* the view's row for diet d names a cuisine of maximal count, the smallest
\* such cuisine, with that count
ModalRow(d) ==
    LET view == RowsOfDiet(most_common_cuisines, d)
    IN  /\ Len(view) = 1
        /\ view[1]["Cuisine_type"] \in CuisinesOf(d)
        /\ view[1]["Count"] = PairCount(d, view[1]["Cuisine_type"])
        /\ \A c \in CuisinesOf(d) :
              /\ PairCount(d, c) <= view[1]["Count"]
              /\ PairCount(d, c) = view[1]["Count"] =>
                    (c = view[1]["Cuisine_type"] \/ StrLess(view[1]["Cuisine_type"], c))

\* C7: the mode-category view has exactly one row per diet type, naming a
\* cuisine of maximal count within the diet type with that count, the
\* lexicographically smallest one on a tie.  A diet type whose records all
\* lack a cuisine gets no row.
C7_OneModalCuisinePerDiet ==
    (ValidInput /\ pc \in AfterCuisines) => \A d \in DietTypes : ModalRow(d)

\* what the code does give: the modal row for every diet type that has a
\* record with a cuisine, and no other row
ModalCuisineWhereKnown ==
    (ValidInput /\ pc \in AfterCuisines) =>
        /\ \A d \in DietTypes : CuisinesOf(d) # {} => ModalRow(d)
        /\ \A k \in 1..Len(most_common_cuisines) :
              /\ most_common_cuisines[k]["Diet_type"] \in DietTypes
              /\ CuisinesOf(most_common_cuisines[k]["Diet_type"]) # {}

ModalCuisineReached ==
    /\ pc = "done"
    /\ Len(df) = 3
    /\ Len(cuisine_counts) = 2
    /\ most_common_cuisines[1]["Cuisine_type"] = "asian"
    /\ most_common_cuisines[1]["Count"] = 2

CsvFiles == {AVG_CSV, TOP_CSV, CUISINE_CSV}

C9_HighestIsFirstRowOfAvg ==
    (pc = "done") =>
        /\ \E k \in 1..Len(avg_macros) :
              /\ avg_macros[k]["Diet_type"] = highest_protein_diet
              /\ avg_macros[k]["Protein(g)"] = highest_protein_value
        /\ ~isna(highest_protein_value)
        /\ \A k \in 1..Len(avg_macros) :
              ~isna(avg_macros[k]["Protein(g)"])
              /\ ~Less(highest_protein_value, avg_macros[k]["Protein(g)"])
        /\ avg_macros[1]["Diet_type"] = highest_protein_diet
        /\ files[HIGHEST_TXT].written
        /\ files[HIGHEST_TXT].body = <<highest_protein_diet, Format2f(highest_protein_value)>>
        /\ stdout.highest = files[HIGHEST_TXT].body

C9_Witness ==
    /\ pc = "done"
    /\ Len(avg_macros) = 2
    /\ highest_protein_diet = "keto"
    /\ highest_protein_value = <<3, 2>>
    /\ files[HIGHEST_TXT].body = <<"keto", 150>>
    /\ stdout.highest = <<"keto", 150>>
    /\ avg_macros[2]["Protein(g)"] = <<1, 1>>

\* C10: no step drops a loaded row: the frame keeps its length, the summary
\* reports it, and every record is in exactly one group of the averages view
\* and in exactly one (diet type, cuisine type) pair of the counts.  A record
\* with a missing diet type or cuisine type is in no group.
C10_EveryRowCounted ==
    ValidInput =>
        /\ pc \in AfterImpute \cup {"impute"} => Len(df) = Len(input.rows)
        /\ pc = "done" => stdout.rows = Len(input.rows)
        /\ pc \in AfterAvg =>
              \A i \in 1..Len(df) :
                  Cardinality({k \in 1..Len(avg_macros) :
                                 avg_macros[k]["Diet_type"] = df[i]["Diet_type"]}) = 1
        /\ pc \in AfterCuisines =>
              \A i \in 1..Len(df) :
                  Cardinality({k \in 1..Len(cuisine_counts) :
                                 /\ cuisine_counts[k]["Diet_type"] = df[i]["Diet_type"]
                                 /\ cuisine_counts[k]["Cuisine_type"] = df[i]["Cuisine_type"]}) = 1

\* what the code does give: the row count is kept and reported, and every
\* record whose keys are present is counted once
RowsWithKeysCounted ==
    ValidInput =>
        /\ pc \in AfterImpute \cup {"impute"} => Len(df) = Len(input.rows)
        /\ pc = "done" => stdout.rows = Len(input.rows)
        /\ pc \in AfterAvg =>
              \A i \in 1..Len(df) :
                  Cardinality({k \in 1..Len(avg_macros) :
                                 avg_macros[k]["Diet_type"] = df[i]["Diet_type"]})
                    = (IF df[i]["Diet_type"] = NA THEN 0 ELSE 1)
        /\ pc \in AfterCuisines =>
              \A i \in 1..Len(df) :
                  Cardinality({k \in 1..Len(cuisine_counts) :
                                 /\ cuisine_counts[k]["Diet_type"] = df[i]["Diet_type"]
                                 /\ cuisine_counts[k]["Cuisine_type"] = df[i]["Cuisine_type"]
                                 /\ cuisine_counts[k]["Count"] =
                                      PairCount(df[i]["Diet_type"], df[i]["Cuisine_type"])})
                    = (IF NA \in {df[i]["Diet_type"], df[i]["Cuisine_type"]} THEN 0 ELSE 1)

====
